---- MODULE Spec2Model ----
(***************************************************************************)
(* A model of synapse/handlers/worker_lock.py: the WorkerLocksHandler      *)
(* (registry of WaitingLock objects, release notification, wake routing,   *)
(* periodic cleanup) and the WaitingLock scoped acquisition (retry loop    *)
(* with backoff, release on exit), running on one reactor.                 *)
(*                                                                         *)
(* Time: _retry_interval is kept in tenths of a second (0.1 s = 1), the    *)
(* jitter of random.uniform(0.9, 1.1) in percent, and so the interval      *)
(* handed to timeout_deferred in thousandths of a second.                  *)
(***************************************************************************)
EXTENDS Integers, FiniteSets, Bags, TLC

\* Bounds of the model.
MaxWaits == 3
MaxCalls == 2

\* Program constants.
InitialRetryInterval == 1
RetryFloor == 50

Waiters == {1, 2}
LockIds == {<<"name", "k1">>, <<"name", "k2">>}
\* The lock ids are interchangeable: the first waiter takes the first one.
IdsFor(w) == IF w = 1 THEN {<<"name", "k1">>} ELSE LockIds
WriteFlags == {"None", "False", "True"}
Jitters == {90, 110}
ExcTypes == {"None", "Error"}
\* Python's None in _inner_lock.
NoLock == [holder |-> 0, id |-> <<"", "">>, write |-> "None"]
NoCall == [method |-> "", write |-> "None"]

VARIABLES
  st,              \* where each WaitingLock's caller is
  lock_name,       \* WaitingLock.lock_name
  lock_key,        \* WaitingLock.lock_key
  write,           \* WaitingLock.write: "None", "False" or "True"
  deferred,        \* WaitingLock.deferred: the generation of the current Deferred
  inner_lock,      \* WaitingLock._inner_lock: NoLock, or the store's Lock
  retry_interval,  \* WaitingLock._retry_interval, in tenths of a second
  timeout,         \* the interval of the running timeout_deferred (0: none)
  called,          \* the Deferreds <<waiter, generation>> with .called set
  locks,           \* WorkerLocksHandler._locks: lock id -> set of WaitingLock
  calls,           \* the reactor's pending call_later(0, ...) calls, a bag
  store,           \* the Locks in the store's lock tables
  exc,             \* exc_type handed to the __aexit__ that is running
  notify_calls,    \* calls of handler.notify_lock_released by each waiter
  sent,            \* send_lock_released commands sent for each waiter's release
  tries,           \* store try-acquire calls made by each waiter
  waits,           \* timeout_deferred waits made by each waiter
  denied,          \* store try-acquire calls of each waiter that returned nothing
  requested,       \* the factory call that made each WaitingLock
  last_call,       \* the store call each waiter made last
  swept            \* waiters registered, no call pending, when a sweep dropped an entry

vars == <<st, lock_name, lock_key, write, deferred, inner_lock, retry_interval,
          timeout, called, locks, calls, store, exc, notify_calls, sent, tries,
          waits, denied, requested, last_call, swept>>

Max2(a, b) == IF a >= b THEN a ELSE b

Min2(a, b) == IF a <= b THEN a ELSE b

LockId(w) == <<lock_name[w], lock_key[w]>>

----
\* WorkerLocksHandler

\* Mutant of setdefault_add: the entry is overwritten with a new set.
setdefault_overwrite(id, w) ==
  IF id \in DOMAIN locks
    THEN [locks EXCEPT ![id] = {w}]
    ELSE locks @@ (id :> {w})

\* self._locks.setdefault((lock_name, lock_key), WeakSet()).add(lock)
setdefault_add(id, w) ==
  IF id \in DOMAIN locks
    THEN [locks EXCEPT ![id] = @ \cup {w}]
    ELSE locks @@ (id :> {w})

\* The WaitingLock constructed by acquire_lock / acquire_read_write_lock and
\* its registration.
new_WaitingLock(w, id, wr) ==
  /\ st[w] = "none"
  /\ \A v \in Waiters : v < w => st[v] # "none"
  /\ st' = [st EXCEPT ![w] = "created"]
  /\ lock_name' = [lock_name EXCEPT ![w] = id[1]]
  /\ lock_key' = [lock_key EXCEPT ![w] = id[2]]
  /\ write' = [write EXCEPT ![w] = wr]
  /\ locks' = setdefault_add(id, w)
  /\ UNCHANGED <<deferred, inner_lock, retry_interval, timeout, called, calls,
                 store, exc, notify_calls, sent, tries, waits, denied,
                 last_call, swept>>

acquire_lock(w, id) ==
  /\ new_WaitingLock(w, id, "None")
  /\ requested' = [requested EXCEPT ![w] = [method |-> "acquire_lock",
                                            write |-> "None"]]

acquire_read_write_lock(w, id, wr) ==
  /\ wr \in {"False", "True"}
  /\ new_WaitingLock(w, id, wr)
  /\ requested' = [requested EXCEPT ![w] = [method |-> "acquire_read_write_lock",
                                            write |-> wr]]

\* Mutant of wake_argument: the Deferred itself, lock.deferred.
wake_argument_deferred(w) == [type |-> "Deferred", lock |-> w, gen |-> deferred[w]]

\* The argument _on_lock_released hands to call_later for one lock:
\* lock.deferred.callback, the bound method of the lock's current Deferred.
wake_argument(w) == [type |-> "method", lock |-> w, gen |-> deferred[w]]

\* Mutant of _on_lock_released: the waiters of every lock id are scheduled.
_on_lock_released_every_id(id) ==
  IF id \in DOMAIN locks /\ locks[id] # {}
    THEN SetToBag({wake_argument(w) :
                     w \in UNION {locks[i] : i \in DOMAIN locks}})
    ELSE EmptyBag

\* _on_lock_released: the calls it schedules with call_later(0, ...).
_on_lock_released(id) ==
  IF id \in DOMAIN locks /\ locks[id] # {}
    THEN SetToBag({wake_argument(w) : w \in locks[id]})
    ELSE EmptyBag

\* The calls pending after the release callback ran for id.
calls_after_release(id) == calls (+) _on_lock_released(id)

\* Only a Deferred has the attribute .called; a bound method has not.
has_called_attribute(arg) == arg.type = "Deferred"

\* Mutant of store_call: try_acquire_lock whatever self.write is.
store_call_plain(w) == [method |-> "try_acquire_lock", write |-> "None"]

\* The store call of __aenter__: try_acquire_read_write_lock with
\* write=self.write when self.write is not None, try_acquire_lock otherwise.
store_call(w) ==
  IF write[w] # "None"
    THEN [method |-> "try_acquire_read_write_lock", write |-> write[w]]
    ELSE [method |-> "try_acquire_lock", write |-> "None"]

\* A waiter suspended in timeout_deferred on the Deferred <<w, g>>.
SuspendedOn(w, g) == st[w] = "waiting" /\ deferred[w] = g

\* _wake_deferred(arg): reading arg.called raises AttributeError for
\* anything but a Deferred (the reactor logs it and goes on); an uncalled
\* Deferred is fired. The Deferreds the pending calls fire.
_wake_deferred(arg) == has_called_attribute(arg) /\ <<arg.lock, arg.gen>> \notin called

\* The Deferreds of d that something still holds: those of a WaitingLock
\* that lives, and those a call pending in b has the bound method of.
held_deferreds(d, b) ==
  {x \in d : st[x[1]] # "collected"
             \/ \E arg \in BagToSet(b) : arg.lock = x[1] /\ arg.gen = x[2]}

\* The reactor runs one pending call_later(0, _wake_deferred, arg) call; a
\* timer that is due may run before the next one. Firing the Deferred a
\* coroutine awaits resumes it up to its next store call. The call done,
\* the reactor drops its argument, and with it the Deferred of a freed
\* WaitingLock that no other pending call holds.
run_call_later(arg) ==
  /\ arg \in BagToSet(calls)
  /\ calls' = calls (-) SetToBag({arg})
  /\ LET fired == IF _wake_deferred(arg) THEN {<<arg.lock, arg.gen>>} ELSE {}
     IN  /\ called' = held_deferreds(called \cup fired, calls')
         /\ st' = [w \in Waiters |->
                     IF SuspendedOn(w, deferred[w]) /\ <<w, deferred[w]>> \in fired
                       THEN "acquiring" ELSE st[w]]
  /\ timeout' = [w \in Waiters |-> IF st'[w] = st[w] THEN timeout[w] ELSE 0]
  /\ tries' = [w \in Waiters |-> IF st'[w] = st[w] THEN tries[w] ELSE tries[w] + 1]
  /\ last_call' = [w \in Waiters |->
                     IF st'[w] = st[w] THEN last_call[w] ELSE store_call(w)]
  /\ UNCHANGED <<lock_name, lock_key, write, deferred, inner_lock,
                 retry_interval, locks, store, exc, notify_calls, sent, waits,
                 denied, requested, swept>>

\* A release announced by a peer process reaches the notifier, which runs
\* the release callback.
on_replicated_release(id) ==
  /\ calls' = calls_after_release(id)
  /\ calls' # calls
  /\ BagCardinality(calls') <= MaxCalls
  /\ UNCHANGED <<st, lock_name, lock_key, write, deferred, inner_lock,
                 retry_interval, timeout, called, locks, store, exc,
                 notify_calls, sent, tries, waits, denied, requested,
                 last_call, swept>>

\* _cleanup_locks: keep the entries whose set is not empty.
cleaned_locks == [id \in {i \in DOMAIN locks : locks[i] # {}} |-> locks[id]]

_cleanup_locks ==
  /\ locks' = cleaned_locks
  /\ swept' = IF locks' = locks
                THEN swept
                ELSE swept \cup {w \in UNION {locks[id] : id \in DOMAIN locks} :
                                  \A arg \in BagToSet(calls) : arg.lock # w}
  /\ UNCHANGED <<st, lock_name, lock_key, write, deferred, inner_lock,
                 retry_interval, timeout, called, calls, store, exc,
                 notify_calls, sent, tries, waits, denied, requested,
                 last_call>>

\* A pending call holds the bound method of the Deferred d, and so keeps d.
referenced_by_call(d) ==
  \E arg \in BagToSet(calls) : arg.lock = d[1] /\ arg.gen = d[2]

\* The caller drops its last reference to a WaitingLock it is not inside:
\* the object is freed with what only it refers to, the WeakSets lose it,
\* and the record of its calls ends.
collect(w) ==
  /\ st[w] \in {"created", "released", "enter_error", "exit_error",
              "exit_assert"}
  /\ st' = [st EXCEPT ![w] = "collected"]
  /\ locks' = [id \in DOMAIN locks |-> locks[id] \ {w}]
  /\ lock_name' = [lock_name EXCEPT ![w] = ""]
  /\ lock_key' = [lock_key EXCEPT ![w] = ""]
  /\ write' = [write EXCEPT ![w] = "None"]
  /\ deferred' = [deferred EXCEPT ![w] = 0]
  /\ inner_lock' = [inner_lock EXCEPT ![w] = NoLock]
  /\ retry_interval' = [retry_interval EXCEPT ![w] = InitialRetryInterval]
  /\ called' = {d \in called : d[1] # w \/ referenced_by_call(d)}
  /\ notify_calls' = [notify_calls EXCEPT ![w] = 0]
  /\ sent' = [sent EXCEPT ![w] = 0]
  /\ tries' = [tries EXCEPT ![w] = 0]
  /\ waits' = [waits EXCEPT ![w] = 0]
  /\ denied' = [denied EXCEPT ![w] = 0]
  /\ requested' = [requested EXCEPT ![w] = NoCall]
  /\ last_call' = [last_call EXCEPT ![w] = NoCall]
  /\ swept' = swept \ {w}
  /\ UNCHANGED <<timeout, calls, store, exc>>

----
\* The lock store

\* The Lock the store hands to w.
Lock(w) == [holder |-> w, id |-> LockId(w), write |-> write[w]]

\* Two Locks conflict: same lock id, same table (plain, or read/write), and
\* not both readers.
Conflict(a, b) ==
  /\ a.holder # b.holder
  /\ a.id = b.id
  /\ (a.write = "None") = (b.write = "None")
  /\ ~(a.write = "False" /\ b.write = "False")

\* try_acquire_lock / try_acquire_read_write_lock may grant w a Lock.
CanGrant(w) == \A l \in store : ~Conflict(Lock(w), l)

\* The store's lease expiry drops a Lock whose release failed: its holder
\* no longer renews it.
lock_expired(l) ==
  /\ l \in store
  /\ st[l.holder] \in {"exit_error", "collected"}
  /\ store' = store \ {l}
  /\ UNCHANGED <<st, lock_name, lock_key, write, deferred, inner_lock,
                 retry_interval, timeout, called, locks, calls, exc,
                 notify_calls, sent, tries, waits, denied, requested,
                 last_call, swept>>

----
\* WaitingLock

\* __aenter__ up to its first store call.
__aenter__(w) ==
  /\ st[w] = "created"
  /\ inner_lock[w] = NoLock
  /\ st' = [st EXCEPT ![w] = "acquiring"]
  /\ tries' = [tries EXCEPT ![w] = @ + 1]
  /\ last_call' = [last_call EXCEPT ![w] = store_call(w)]
  /\ UNCHANGED <<lock_name, lock_key, write, deferred, inner_lock,
                 retry_interval, timeout, called, locks, calls, store, exc,
                 notify_calls, sent, waits, denied, requested, swept>>

\* _inner_lock once the store returned the token lock.
inner_lock_granted(w, lock) == lock

\* Mutant of try_acquire_granted: the Deferred is replaced and the interval
\* advanced before the token is looked at.
try_acquire_granted_after_backoff(w) ==
  /\ st[w] = "acquiring"
  /\ CanGrant(w)
  /\ store' = store \cup {Lock(w)}
  /\ inner_lock' = [inner_lock EXCEPT ![w] = inner_lock_granted(w, Lock(w))]
  /\ deferred' = [deferred EXCEPT ![w] = @ + 1]
  /\ retry_interval' =
       [retry_interval EXCEPT ![w] = Max2(RetryFloor, retry_interval[w] * 2)]
  /\ st' = [st EXCEPT ![w] = "held"]
  /\ UNCHANGED <<lock_name, lock_key, write, timeout, called, locks, calls,
                 exc, notify_calls, sent, tries, waits, denied, requested,
                 last_call, swept>>

\* The store call returns a token: the loop ends and __aenter__ returns.
try_acquire_granted(w) ==
  /\ st[w] = "acquiring"
  /\ CanGrant(w)
  /\ store' = store \cup {Lock(w)}
  /\ inner_lock' = [inner_lock EXCEPT ![w] = inner_lock_granted(w, Lock(w))]
  /\ st' = [st EXCEPT ![w] = "held"]
  /\ UNCHANGED <<lock_name, lock_key, write, deferred, retry_interval,
                 timeout, called, locks, calls, exc, notify_calls, sent,
                 tries, waits, denied, requested, last_call, swept>>

\* Mutant of stored_retry_interval: min in the place of max.
stored_retry_interval_min(next) == Min2(RetryFloor, next * 2)

\* self._retry_interval = max(5, next * 2)
stored_retry_interval(next) == Max2(RetryFloor, next * 2)

\* return next * random.uniform(0.9, 1.1)
jittered(next, jitter) == next * jitter

\* Mutant of try_acquire_denied: the loop retries at once, without a wait.
try_acquire_denied_no_wait(w, jitter) ==
  /\ st[w] = "acquiring"
  /\ denied[w] < MaxWaits
  /\ denied' = [denied EXCEPT ![w] = @ + 1]
  /\ tries' = [tries EXCEPT ![w] = @ + 1]
  /\ UNCHANGED <<st, lock_name, lock_key, write, deferred, inner_lock,
                 retry_interval, timeout, called, locks, calls, store, exc,
                 notify_calls, sent, waits, requested, last_call, swept>>

\* The store call returns nothing: a fresh Deferred, and a wait on it of
\* _get_next_retry_interval().
try_acquire_denied(w, jitter) ==
  /\ st[w] = "acquiring"
  /\ denied[w] < MaxWaits
  /\ denied' = [denied EXCEPT ![w] = @ + 1]
  /\ deferred' = [deferred EXCEPT ![w] = @ + 1]
  /\ timeout' = [timeout EXCEPT ![w] = jittered(retry_interval[w], jitter)]
  /\ retry_interval' =
       [retry_interval EXCEPT ![w] = stored_retry_interval(retry_interval[w])]
  /\ waits' = [waits EXCEPT ![w] = @ + 1]
  /\ st' = [st EXCEPT ![w] = "waiting"]
  /\ UNCHANGED <<lock_name, lock_key, write, inner_lock, called, locks, calls,
                 store, exc, notify_calls, sent, tries, requested, last_call,
                 swept>>

\* Mutant of try_acquire_raised: the store call is made once more before
\* the error leaves __aenter__.
try_acquire_raised_retried(w) ==
  /\ st[w] = "acquiring"
  /\ tries' = [tries EXCEPT ![w] = @ + 1]
  /\ st' = [st EXCEPT ![w] = "enter_error"]
  /\ UNCHANGED <<lock_name, lock_key, write, deferred, inner_lock,
                 retry_interval, timeout, called, locks, calls, store, exc,
                 notify_calls, sent, waits, denied, requested, last_call,
                 swept>>

\* The store call raises: __aenter__ raises it.
try_acquire_raised(w) ==
  /\ st[w] = "acquiring"
  /\ st' = [st EXCEPT ![w] = "enter_error"]
  /\ UNCHANGED <<lock_name, lock_key, write, deferred, inner_lock,
                 retry_interval, timeout, called, locks, calls, store, exc,
                 notify_calls, sent, tries, waits, denied, requested,
                 last_call, swept>>

\* Mutant of timeout_elapsed: the end of the wait is taken for a grant.
timeout_elapsed_taken_for_grant(w) ==
  /\ st[w] = "waiting"
  /\ called' = called \cup {<<w, deferred[w]>>}
  /\ timeout' = [timeout EXCEPT ![w] = 0]
  /\ inner_lock' = [inner_lock EXCEPT ![w] = Lock(w)]
  /\ st' = [st EXCEPT ![w] = "held"]
  /\ UNCHANGED <<lock_name, lock_key, write, deferred, retry_interval, locks,
                 calls, store, exc, notify_calls, sent, tries, waits, denied,
                 requested, last_call, swept>>

\* Mutant of timeout_elapsed: the error of the timeout leaves __aenter__.
timeout_elapsed_raises(w) ==
  /\ st[w] = "waiting"
  /\ called' = called \cup {<<w, deferred[w]>>}
  /\ timeout' = [timeout EXCEPT ![w] = 0]
  /\ st' = [st EXCEPT ![w] = "enter_error"]
  /\ UNCHANGED <<lock_name, lock_key, write, deferred, inner_lock,
                 retry_interval, locks, calls, store, exc, notify_calls, sent,
                 tries, waits, denied, requested, last_call, swept>>

\* The timer of timeout_deferred elapses: the Deferred is cancelled, the
\* error is swallowed and the loop makes its next store call.
timeout_elapsed(w) ==
  /\ st[w] = "waiting"
  /\ called' = called \cup {<<w, deferred[w]>>}
  /\ timeout' = [timeout EXCEPT ![w] = 0]
  /\ st' = [st EXCEPT ![w] = "acquiring"]
  /\ tries' = [tries EXCEPT ![w] = @ + 1]
  /\ last_call' = [last_call EXCEPT ![w] = store_call(w)]
  /\ UNCHANGED <<lock_name, lock_key, write, deferred, inner_lock,
                 retry_interval, locks, calls, store, exc, notify_calls, sent,
                 waits, denied, requested, swept>>

\* Mutant of notify_lock_released: the notifier alone, no replication command.
notify_without_replication(w) ==
  /\ notify_calls' = [notify_calls EXCEPT ![w] = @ + 1]
  /\ calls' = calls_after_release(LockId(w))
  /\ UNCHANGED sent

\* notify_lock_released: the replication command, then the notifier, which
\* runs the release callback.
notify_lock_released(w) ==
  /\ sent' = [sent EXCEPT ![w] = @ + 1]
  /\ notify_calls' = [notify_calls EXCEPT ![w] = @ + 1]
  /\ calls' = calls_after_release(LockId(w))

\* Mutant of aexit_assertion_fails: the release is notified before
\* _inner_lock is looked at.
aexit_notifies_then_fails(w) ==
  /\ st[w] \in {"created", "enter_error"}
  /\ inner_lock[w] = NoLock
  /\ notify_lock_released(w)
  /\ BagCardinality(calls') <= MaxCalls
  /\ st' = [st EXCEPT ![w] = "exit_assert"]
  /\ UNCHANGED <<lock_name, lock_key, write, deferred, inner_lock,
                 retry_interval, timeout, called, locks, store, exc, tries,
                 waits, denied, requested, last_call, swept>>

\* __aexit__ called on a WaitingLock that __aenter__ gave no Lock: `assert
\* self._inner_lock` fails and the caller gets the AssertionError.
aexit_assertion_fails(w) ==
  /\ st[w] \in {"created", "enter_error"}
  /\ inner_lock[w] = NoLock
  /\ st' = [st EXCEPT ![w] = "exit_assert"]
  /\ UNCHANGED <<lock_name, lock_key, write, deferred, inner_lock,
                 retry_interval, timeout, called, locks, calls, store, exc,
                 notify_calls, sent, tries, waits, denied, requested,
                 last_call, swept>>

\* Mutant of __aexit__: the release is notified only when the protected
\* section ended without an error.
aexit_notifies_on_success(w, e) ==
  /\ st[w] = "held"
  /\ inner_lock[w] # NoLock
  /\ IF e = "None"
       THEN /\ sent' = [sent EXCEPT ![w] = @ + 1]
            /\ notify_calls' = [notify_calls EXCEPT ![w] = @ + 1]
            /\ calls' = calls_after_release(LockId(w))
       ELSE UNCHANGED <<sent, notify_calls, calls, requested, last_call,
                        swept>>
  /\ BagCardinality(calls') <= MaxCalls
  /\ exc' = [exc EXCEPT ![w] = e]
  /\ st' = [st EXCEPT ![w] = "releasing"]
  /\ UNCHANGED <<lock_name, lock_key, write, deferred, inner_lock,
                 retry_interval, timeout, called, locks, store, tries, waits,
                 denied, requested, last_call, swept>>

\* __aexit__ up to the store's release call.
__aexit__(w, e) ==
  /\ st[w] = "held"
  /\ inner_lock[w] # NoLock
  /\ notify_lock_released(w)
  /\ BagCardinality(calls') <= MaxCalls
  /\ exc' = [exc EXCEPT ![w] = e]
  /\ st' = [st EXCEPT ![w] = "releasing"]
  /\ UNCHANGED <<lock_name, lock_key, write, deferred, inner_lock,
                 retry_interval, timeout, called, locks, store, tries, waits,
                 denied, requested, last_call, swept>>

\* Mutant of release_done: __aexit__ empties _inner_lock after the release.
release_done_clears_handle(w) ==
  /\ st[w] = "releasing"
  /\ store' = store \ {inner_lock[w]}
  /\ inner_lock' = [inner_lock EXCEPT ![w] = NoLock]
  /\ st' = [st EXCEPT ![w] = "released"]
  /\ exc' = [exc EXCEPT ![w] = "None"]
  /\ UNCHANGED <<lock_name, lock_key, write, deferred, retry_interval,
                 timeout, called, locks, calls, notify_calls, sent, tries,
                 waits, denied, requested, last_call, swept>>

\* The store's release returns: __aexit__ returns.
release_done(w) ==
  /\ st[w] = "releasing"
  /\ store' = store \ {inner_lock[w]}
  /\ st' = [st EXCEPT ![w] = "released"]
  /\ exc' = [exc EXCEPT ![w] = "None"]
  /\ UNCHANGED <<lock_name, lock_key, write, deferred, inner_lock,
                 retry_interval, timeout, called, locks, calls, notify_calls,
                 sent, tries, waits, denied, requested, last_call, swept>>

\* The store's release raises: __aexit__ raises it.
release_raised(w) ==
  /\ st[w] = "releasing"
  /\ st' = [st EXCEPT ![w] = "exit_error"]
  /\ exc' = [exc EXCEPT ![w] = "None"]
  /\ UNCHANGED <<lock_name, lock_key, write, deferred, inner_lock,
                 retry_interval, timeout, called, locks, calls, store,
                 notify_calls, sent, tries, waits, denied, requested,
                 last_call, swept>>

----
Init ==
  /\ st = [w \in Waiters |-> "none"]
  /\ lock_name = [w \in Waiters |-> ""]
  /\ lock_key = [w \in Waiters |-> ""]
  /\ write = [w \in Waiters |-> "None"]
  /\ deferred = [w \in Waiters |-> 0]
  /\ inner_lock = [w \in Waiters |-> NoLock]
  /\ retry_interval = [w \in Waiters |-> InitialRetryInterval]
  /\ timeout = [w \in Waiters |-> 0]
  /\ called = {}
  /\ locks = <<>>
  /\ calls = EmptyBag
  /\ store = {}
  /\ exc = [w \in Waiters |-> "None"]
  /\ notify_calls = [w \in Waiters |-> 0]
  /\ sent = [w \in Waiters |-> 0]
  /\ tries = [w \in Waiters |-> 0]
  /\ waits = [w \in Waiters |-> 0]
  /\ denied = [w \in Waiters |-> 0]
  /\ requested = [w \in Waiters |-> NoCall]
  /\ last_call = [w \in Waiters |-> NoCall]
  /\ swept = {}

Next ==
  \/ \E w \in Waiters : \E id \in IdsFor(w) : acquire_lock(w, id)
  \/ \E w \in Waiters : \E id \in IdsFor(w), wr \in WriteFlags :
       acquire_read_write_lock(w, id, wr)
  \/ \E w \in Waiters : __aenter__(w)
  \/ \E w \in Waiters : try_acquire_granted(w)
  \/ \E w \in Waiters, j \in Jitters : try_acquire_denied(w, j)
  \/ \E w \in Waiters : try_acquire_raised(w)
  \/ \E w \in Waiters : timeout_elapsed(w)
  \/ \E w \in Waiters, e \in ExcTypes : __aexit__(w, e)
  \/ \E w \in Waiters : aexit_assertion_fails(w)
  \/ \E w \in Waiters : release_done(w)
  \/ \E w \in Waiters : release_raised(w)
  \/ \E arg \in BagToSet(calls) : run_call_later(arg)
  \/ \E id \in LockIds : on_replicated_release(id)
  \/ \E w \in Waiters : collect(w)
  \/ \E l \in store : lock_expired(l)
  \/ _cleanup_locks

Spec == Init /\ [][Next]_vars

----
\* Scheduling

\* The scheduling the reactor, its timers and the store's calls guarantee:
\* a pending call is run, a running timer elapses, a store call returns, a
\* Lock that is no longer renewed expires, and a caller inside its
\* protected section leaves it.
store_returns(w) ==
  \/ try_acquire_granted(w)
  \/ \E j \in Jitters : try_acquire_denied(w, j)
  \/ try_acquire_raised(w)

release_returns(w) == release_done(w) \/ release_raised(w)

Fairness ==
  /\ WF_vars(\E arg \in BagToSet(calls) : run_call_later(arg))
  /\ WF_vars(\E l \in store : lock_expired(l))
  /\ \A w \in Waiters :
       /\ WF_vars(store_returns(w))
       /\ WF_vars(timeout_elapsed(w))
       /\ WF_vars(\E e \in ExcTypes : __aexit__(w, e))
       /\ WF_vars(release_returns(w))

LiveSpec == Init /\ [][Next]_vars /\ Fairness

----
\* Claims

\* A call pending for the Deferred w is suspended on.
PendingWake(w) ==
  \E arg \in BagToSet(calls) : arg.lock = w /\ arg.gen = deferred[w]

\* The calls the reactor runs in the step.
Ran == BagToSet(calls (-) calls')

\* C1: when the release callback has scheduled the wake of the Deferred a
\* waiter is suspended on, the reactor's run of the scheduled call fires
\* that Deferred and the waiter makes its next store try-acquire call then,
\* before its backoff timer elapses.
C1_WakeShortensWait ==
  [][\A w \in Waiters :
       (st[w] = "waiting"
        /\ \E arg \in Ran : arg.lock = w /\ arg.gen = deferred[w])
         => /\ <<w, deferred[w]>> \in called'
            /\ st'[w] = "acquiring"
            /\ tries'[w] = tries[w] + 1]_vars

\* C2: a waiter whose __aexit__ ran has called notify_lock_released exactly
\* once, whether the protected section ended normally or with an error, and
\* no waiter calls it before its exit or twice.
C2_ExactlyOnceNotification ==
  \A w \in Waiters :
    /\ notify_calls[w] <= 1
    /\ st[w] \in {"releasing", "released", "exit_error"} => notify_calls[w] = 1
    /\ st[w] \in {"none", "created", "acquiring", "waiting", "held",
                  "enter_error", "exit_assert"}
         => notify_calls[w] = 0

\* One exit completed and another running after an error in the protected
\* section, each notified once.
C2_Witness ==
  \E w, v \in Waiters :
    /\ st[w] = "released" /\ notify_calls[w] = 1
    /\ st[v] = "releasing" /\ exc[v] = "Error" /\ notify_calls[v] = 1

\* The interval before jitter of the k-th wait as the claim states it:
\* 0.1, 5.0, 5.0, ...
ClaimedBackoff(k) == IF k = 1 THEN InitialRetryInterval ELSE RetryFloor

\* The interval before jitter of the k-th wait: 0.1, 5, 10, 20, ...
Backoff(k) == IF k = 1 THEN InitialRetryInterval ELSE RetryFloor * 2 ^ (k - 2)

\* C3 as stated: the interval before jitter of a waiter's k-th wait is 0.1
\* for k = 1 and 5.0 for every k >= 2.
C3_ClaimedSequence ==
  \A w \in Waiters :
    st[w] = "waiting"
      => timeout[w] \in {jittered(ClaimedBackoff(waits[w]), j) : j \in Jitters}

\* C3 amended: the interval before jitter of a waiter's k-th wait is 0.1 for
\* k = 1 and 5 * 2^(k-2) for k >= 2 (0.1, 5, 10, 20, ...), and the interval
\* stored then is the one of the next wait.
C3_BackoffSequence ==
  \A w \in Waiters :
    st[w] = "waiting"
      => /\ timeout[w] \in {jittered(Backoff(waits[w]), j) : j \in Jitters}
         /\ retry_interval[w] = Backoff(waits[w] + 1)

\* A third wait, of 10.0 before jitter.
C3_Witness ==
  \E w \in Waiters :
    st[w] = "waiting" /\ waits[w] = 3 /\ timeout[w] = jittered(2 * RetryFloor, 110)

\* C4: the stored retry interval never exceeds a fixed bound, the 5.0 of
\* the recurrence.
C4_RetryIntervalCapped == \A w \in Waiters : retry_interval[w] <= RetryFloor

\* r has notified its release and the store has not completed it: the
\* Lock of r is still in the store.
ReleasePending(r) == notify_calls[r] = 1 /\ inner_lock[r] \in store

\* C5: while the store has not completed the release a waiter's exit has
\* notified, no wake signal of a waiter for the same lock id is fired and
\* no such waiter is resumed by the reactor's run of a scheduled call,
\* whether the call was scheduled by the local callback or on a command of
\* a peer: no waiter is woken by a release while the releaser's Lock is
\* still in the store.
C5_NoWakeBeforeStoreRelease ==
  [][\A r, p \in Waiters :
       (/\ ReleasePending(r)
        /\ p # r
        /\ LockId(p) = LockId(r)
        /\ Ran # {})
         => /\ \A d \in called' \ called : d[1] # p
            /\ st'[p] = st[p]
            /\ tries'[p] = tries[p]]_vars

\* A waiter's exit has notified its release, the wake of a waiter suspended
\* for the same lock id is scheduled, and the store still holds the
\* releaser's Lock.
C5_Witness ==
  \E r, p \in Waiters :
    /\ st[r] = "releasing" /\ ReleasePending(r) /\ sent[r] = 1
    /\ p # r /\ LockId(p) = LockId(r)
    /\ st[p] = "waiting" /\ PendingWake(p)

\* C6: once __aexit__ has started the store's release call, and when that
\* call has raised, the release was already notified: the replication
\* command was sent and notify_lock_released was called.
C6_NotifiedBeforeStoreRelease ==
  \A w \in Waiters :
    st[w] \in {"releasing", "exit_error"} => sent[w] = 1 /\ notify_calls[w] = 1

\* The store's release raised after the notification.
C6_Witness ==
  \E w \in Waiters : st[w] = "exit_error" /\ sent[w] = 1 /\ notify_calls[w] = 1

\* w is in the registry's set for its lock id.
Registered(w) == LockId(w) \in DOMAIN locks /\ w \in locks[LockId(w)]

\* C7 as stated: a waiter whose _inner_lock is set is not in the registry's
\* set for its lock id, and no wake is scheduled for it.
C7_HolderNotPending ==
  \A w \in Waiters :
    inner_lock[w] # NoLock => ~Registered(w) /\ ~PendingWake(w)

\* C7 amended: a waiter whose _inner_lock is set is still in the registry's
\* set for its lock id, and the release callback for that id schedules a
\* wake for it as for any other member.
C7_HolderStaysRegistered ==
  \A w \in Waiters :
    inner_lock[w] # NoLock
      => /\ Registered(w)
         /\ wake_argument(w) \in BagToSet(_on_lock_released(LockId(w)))

\* A wake is scheduled for a waiter inside its protected section.
C7_Witness ==
  \E w \in Waiters : st[w] = "held" /\ Registered(w) /\ PendingWake(w)

\* C8 as stated: _inner_lock is set exactly while the waiter holds the
\* lock in the store.
C8_HandleIffHeld ==
  \A w \in Waiters : (inner_lock[w] # NoLock) <=> (Lock(w) \in store)

\* C8 amended: _inner_lock is empty until the store grants the Lock and is
\* that Lock from then on, after the release too; so it is set whenever the
\* waiter holds the lock in the store.
C8_HandleSetFromGrant ==
  \A w \in Waiters :
    /\ st[w] \in {"none", "created", "acquiring", "waiting", "enter_error",
                  "exit_assert"}
         => inner_lock[w] = NoLock
    /\ st[w] \in {"held", "releasing", "released", "exit_error"}
         => inner_lock[w] = Lock(w)
    /\ Lock(w) \in store => inner_lock[w] # NoLock

\* A released waiter whose _inner_lock is still set.
C8_Witness ==
  \E w \in Waiters :
    st[w] = "released" /\ inner_lock[w] # NoLock /\ inner_lock[w] \notin store

InLoop(w) == st[w] \in {"acquiring", "waiting"}

\* C9, one turn of the loop: under weak fairness of the reactor, the timers
\* and the store calls, a waiter in the retry loop of __aenter__ that the
\* store refused n times eventually holds the lock, gets the store's error,
\* or is refused once more. How many times the store refuses is the
\* store's matter: nothing in __aenter__ bounds it, and a run in which a
\* waiter stays in the loop forever needs a refusal more than any bound.
C9_LoopTurnEnds ==
  \A w \in Waiters : \A n \in 0..(MaxWaits - 1) :
    (InLoop(w) /\ denied[w] = n)
      ~> (st[w] \in {"held", "enter_error"} \/ denied[w] > n)

\* C10: when __aenter__ returns after the store returned nothing N times,
\* it made N waits and N + 1 try-acquire calls, each wait on a Deferred of
\* its own that the wait left called.
C10_RetryOnContention ==
  \A w \in Waiters :
    st[w] = "held"
      => /\ waits[w] = denied[w]
         /\ tries[w] = denied[w] + 1
         /\ deferred[w] = denied[w]
         /\ \A g \in 1..denied[w] : <<w, g>> \in called

\* An entry after three denials, and one after none.
C10_Witness ==
  \E w, v \in Waiters :
    /\ st[w] = "held" /\ denied[w] = 3 /\ tries[w] = 4
    /\ st[v] = "held" /\ denied[v] = 0 /\ tries[v] = 1

\* C11: when the store returns a token on the waiter's first call,
\* __aenter__ returns without a wait: one store call, no wait and no timer,
\* _retry_interval still 0.1 and the Deferred the one of the construction.
C11_ImmediateSuccess ==
  \A w \in Waiters :
    (st[w] = "held" /\ denied[w] = 0)
      => /\ tries[w] = 1
         /\ waits[w] = 0
         /\ timeout[w] = 0
         /\ retry_interval[w] = InitialRetryInterval
         /\ deferred[w] = 0
         /\ <<w, 0>> \notin called

\* A waiter entered on its first store call, next to one that had to wait.
C11_Witness ==
  \E w, v \in Waiters :
    /\ st[w] = "held" /\ denied[w] = 0 /\ tries[w] = 1
    /\ st[v] = "waiting" /\ deferred[v] = 1

\* C13: a wait of __aenter__ ends only in a further store call of the same
\* waiter, and __aenter__ raises only out of a store call: the timeout of
\* timeout_deferred never reaches the caller.
C13_TimeoutNotAnError ==
  [][\A w \in Waiters :
       /\ (st[w] = "waiting" /\ st'[w] # "waiting")
            => /\ st'[w] = "acquiring"
               /\ tries'[w] = tries[w] + 1
               /\ inner_lock'[w] = NoLock
       /\ (st[w] # "enter_error" /\ st'[w] = "enter_error")
            => st[w] = "acquiring"]_vars

\* A waiter making its next store call after the timer cancelled its
\* Deferred.
C13_Witness ==
  \E w \in Waiters :
    /\ st[w] = "acquiring"
    /\ waits[w] >= 1
    /\ tries[w] = waits[w] + 1
    /\ <<w, deferred[w]>> \in called

\* C14: when a store call of __aenter__ raised, __aenter__ has raised: the
\* raising call was the last one (one call per None before it, and itself),
\* no wait followed it, no timer runs, _inner_lock is empty and the store
\* holds no Lock of the waiter.
C14_StoreErrorPropagated ==
  \A w \in Waiters :
    st[w] = "enter_error"
      => /\ tries[w] = denied[w] + 1
         /\ waits[w] = denied[w]
         /\ timeout[w] = 0
         /\ inner_lock[w] = NoLock
         /\ \A l \in store : l.holder # w
         /\ notify_calls[w] = 0

\* The store raised on a first call, and on a call after two waits.
C14_Witness ==
  \E w, v \in Waiters :
    /\ st[w] = "enter_error" /\ tries[w] = 1
    /\ st[v] = "enter_error" /\ denied[v] = 2 /\ tries[v] = 3

\* C17: a waiter inside its protected section got its Lock from a store
\* call of its own, whatever wakes and timeouts there were: _inner_lock is
\* the Lock the store holds for it, after one store call more than the
\* store returned None; so no two waiters are inside the protected sections
\* of Locks that exclude each other.
C17_OnlyTheStoreGrants ==
  \A w \in Waiters :
    st[w] = "held"
      => /\ inner_lock[w] = Lock(w)
         /\ inner_lock[w] \in store
         /\ tries[w] = denied[w] + 1
         /\ \A v \in Waiters \ {w} :
              st[v] = "held" => ~Conflict(inner_lock[w], inner_lock[v])

\* A waiter inside its protected section after a wait, a waiter for a Lock
\* it excludes suspended, and a wake scheduled.
C17_Witness ==
  \E w, v \in Waiters :
    /\ st[w] = "held" /\ denied[w] >= 1
    /\ st[v] = "waiting" /\ Conflict(Lock(v), inner_lock[w])
    /\ PendingWake(v)

\* The number of calls pending in b for a Deferred of w.
CallsFor(b, w) ==
  BagCardinality([arg \in {a \in BagToSet(b) : a.lock = w} |-> b[arg]])

\* w is not yet inside its protected section.
Pending(w) == st[w] \in {"created", "acquiring", "waiting"}

\* C19: a step in which the release callback schedules calls does so for
\* one lock id, the releaser's own when a waiter's exit notified it: it
\* schedules one call for every pending waiter made for that id, whatever
\* its write flag, none for a waiter made for another id, and changes no
\* Deferred.
C19_WakeRoutingByKey ==
  [][BagCardinality(calls') > BagCardinality(calls)
       => /\ \E id \in LockIds :
               /\ \A r \in Waiters :
                    notify_calls'[r] > notify_calls[r] => id = LockId(r)
               /\ \A w \in Waiters :
                    /\ (Pending(w) /\ LockId(w) = id)
                         => CallsFor(calls', w) = CallsFor(calls, w) + 1
                    /\ (st[w] # "none" /\ LockId(w) # id)
                         => CallsFor(calls', w) = CallsFor(calls, w)
          /\ called' = called
          /\ deferred' = deferred]_vars

\* One release scheduled the wakes of two suspended waiters for one lock
\* id, a plain one and a writer.
C19_Witness ==
  \E w, v \in Waiters :
    /\ st[w] = "waiting" /\ st[v] = "waiting"
    /\ LockId(w) = LockId(v)
    /\ write[w] = "None" /\ write[v] = "True"
    /\ PendingWake(w) /\ PendingWake(v)

\* The step runs a call scheduled for a Deferred w has replaced since.
StaleWakeRuns(w) == \E arg \in Ran : arg.lock = w /\ arg.gen < deferred[w]

\* C20: a call the release callback scheduled before the waiter replaced
\* its Deferred still wakes the waiter: the reactor's run of it fires the
\* Deferred the waiter is suspended on then, and the waiter makes its next
\* store call.
C20_NoLostWakeup ==
  [][\A w \in Waiters :
       (st[w] = "waiting" /\ StaleWakeRuns(w))
         => /\ <<w, deferred[w]>> \in called'
            /\ st'[w] = "acquiring"]_vars

\* C15: __aexit__ on a WaitingLock whose _inner_lock is empty fails by its
\* assertion and does nothing else: no replication command, no call of the
\* notifier (so no call scheduled), no store release, and the registry and
\* the fields of the waiter as they were; and an exit that goes on to the
\* store's release had a Lock in _inner_lock.
C15_MisuseHasNoEffect ==
  [][\A w \in Waiters :
       /\ (st[w] # "exit_assert" /\ st'[w] = "exit_assert")
            => /\ inner_lock[w] = NoLock
               /\ \A v \in Waiters \ {w} : st'[v] = st[v]
               /\ UNCHANGED <<lock_name, lock_key, write, deferred,
                              inner_lock, retry_interval, timeout, called,
                              locks, calls, store, exc, notify_calls, sent,
                              tries, waits, denied, requested, last_call,
                              swept>>
       /\ (st[w] # "releasing" /\ st'[w] = "releasing")
            => inner_lock[w] # NoLock]_vars

\* The assertion failed for a waiter that is registered with a suspended
\* waiter for the same lock id, and nothing was notified.
C15_Witness ==
  \E w, v \in Waiters :
    /\ st[w] = "exit_assert" /\ Registered(w)
    /\ notify_calls[w] = 0 /\ sent[w] = 0
    /\ st[v] = "waiting" /\ LockId(v) = LockId(w) /\ ~PendingWake(v)

\* The store call that matches the factory call that made w.
MatchingCall(w) ==
  IF requested[w].method = "acquire_lock"
    THEN [method |-> "try_acquire_lock", write |-> "None"]
    ELSE [method |-> "try_acquire_read_write_lock", write |-> requested[w].write]

\* C16: the write of a WaitingLock is the one of the factory call that made
\* it, None for acquire_lock and the flag for acquire_read_write_lock, for
\* as long as it lives; every store call it made is try_acquire_lock for
\* the first and try_acquire_read_write_lock with that flag for the second;
\* and whenever the store can grant a waiter's call, the call can return
\* the Lock.
C16_ReadWriteDelegation ==
  \A w \in Waiters :
    st[w] \notin {"none", "collected"}
      => /\ write[w] = requested[w].write
         /\ (requested[w].method = "acquire_lock") = (write[w] = "None")
         /\ tries[w] >= 1 => last_call[w] = MatchingCall(w)
         /\ tries[w] = 0 => last_call[w] = NoCall
         /\ (st[w] = "acquiring" /\ CanGrant(w)) => ENABLED try_acquire_granted(w)

\* Two readers of one lock id inside their protected sections, one of them
\* after a wait, and each call the read/write one with write=False.
C16_Witness ==
  \E w, v \in Waiters :
    /\ w # v
    /\ st[w] = "held" /\ st[v] = "held"
    /\ LockId(w) = LockId(v)
    /\ requested[w] = [method |-> "acquire_read_write_lock", write |-> "False"]
    /\ requested[v] = requested[w]
    /\ last_call[w] = [method |-> "try_acquire_read_write_lock", write |-> "False"]
    /\ last_call[v] = last_call[w]
    /\ denied[v] >= 1

\* A step of _cleanup_locks that drops an entry drops the entries whose set
\* is empty and no other, and leaves the sets of the others as they were.
SweepIsExact ==
  (DOMAIN locks' # DOMAIN locks /\ DOMAIN locks' \subseteq DOMAIN locks)
    => /\ DOMAIN locks' = {id \in DOMAIN locks : locks[id] # {}}
       /\ \A id \in DOMAIN locks' : locks'[id] = locks[id]

\* A suspended waiter that was registered when a sweep dropped an entry,
\* with a wake scheduled since, is woken by the reactor's run of the
\* scheduled call.
WokenAfterSweep ==
  \A w \in swept :
    (st[w] = "waiting"
     /\ \E arg \in Ran : arg.lock = w /\ arg.gen = deferred[w])
      => /\ <<w, deferred[w]>> \in called'
         /\ st'[w] = "acquiring"

\* C12: a sweep removes exactly the lock ids whose set is empty and leaves
\* every other entry and its members unchanged, so that a waiter not yet
\* inside its protected section that was registered before a sweep is still
\* woken by a release after it.
C12_RegistryCleanup == [][SweepIsExact /\ WokenAfterSweep]_vars

\* The part of C12 about the sweep alone.
C12_SweepAlone == [][SweepIsExact]_vars

\* The step is the reactor's run of a pending call.
Tick == BagCardinality(calls') < BagCardinality(calls)

\* The Deferreds the calls run in the step are for.
RanFor == {<<arg.lock, arg.gen>> : arg \in Ran}

\* C18: the step in which the release callback schedules calls fires no
\* Deferred and resumes no waiter; outside the reactor's run of a scheduled
\* call a Deferred gets called only by the timeout of the wait of its own
\* waiter; and the reactor's run of a scheduled call performs the wake: it
\* leaves the Deferred of a living waiter the call is for called, and
\* fires no other.
C18_WakeIsDeferred ==
  [][/\ BagCardinality(calls') > BagCardinality(calls)
          => /\ called' = called
             /\ \A w \in Waiters : st[w] = "waiting" => st'[w] = "waiting"
     /\ ~Tick
          => \A d \in called' \ called :
               /\ st[d[1]] = "waiting" /\ d[2] = deferred[d[1]]
               /\ st'[d[1]] = "acquiring"
               /\ called' = called \cup {d}
     /\ Tick
          => /\ called' \subseteq called \cup RanFor
             /\ \A d \in RanFor : st[d[1]] # "collected" => d \in called']_vars

\* The part of C18 about what does not fire a Deferred.
C18_NothingElseFires ==
  [][/\ BagCardinality(calls') > BagCardinality(calls)
          => /\ called' = called
             /\ \A w \in Waiters : st[w] = "waiting" => st'[w] = "waiting"
     /\ ~Tick
          => \A d \in called' \ called :
               /\ st[d[1]] = "waiting" /\ d[2] = deferred[d[1]]
               /\ st'[d[1]] = "acquiring"
               /\ called' = called \cup {d}
     /\ Tick
          => called' \subseteq called \cup RanFor]_vars

====
